---- MODULE Spec2Model ----
(***************************************************************************)
(* The unsubscribe engine of gmail-triage-agent                            *)
(* (src/src/unsubscribe/engine.py): a mailbox dataset is aggregated per    *)
(* sender, percentile thresholds are derived from the aggregate, every     *)
(* sender is scored against them and the recommendations are ranked.       *)
(*                                                                         *)
(* Metric values (rates, ratios, quantiles) are held as exact rationals    *)
(* [n, d] in lowest terms, NaN as d = 0.  The recommendation score, which  *)
(* the code accumulates by repeated binary64 additions of 0.1 .. 0.4, is   *)
(* held as a binary64 value: tenths plus an error in units of              *)
(* 1/(10 * 2^56), rounded to nearest-even after every addition.            *)
(***************************************************************************)
EXTENDS Integers, Sequences, FiniteSets, TLC

(***************************************************************************)
(* Bounds of the model.                                                    *)
(***************************************************************************)
\* senders in a dataset of the scorer specification
MaxSenders == 5
\* senders in a dataset of the two-run specification
MaxSendersShared == 2
\* callers pass min_emails in 1 .. MaxMinEmails
MaxMinEmails == 3
\* senders in a table built by the caller
MaxScenarioSenders == 5
\* senders in a mailbox of the link extraction
MaxLinkSenders == 3

(***************************************************************************)
(* Exact rationals.                                                        *)
(***************************************************************************)
RECURSIVE Gcd(_, _)
Gcd(a, b) == IF b = 0 THEN a ELSE Gcd(b, a % b)

Abs(x) == IF x < 0 THEN -x ELSE x

NaN == [n |-> 0, d |-> 0]

IsNaN(x) == x.d = 0

Rat(num, den) ==
    IF den = 0 THEN NaN
    ELSE LET s == IF den < 0 THEN -1 ELSE 1
             g == Gcd(Abs(num), Abs(den))
         IN  [n |-> (s * num) \div g, d |-> (s * den) \div g]

RInt(k) == [n |-> k, d |-> 1]

RAdd(x, y) == IF IsNaN(x) \/ IsNaN(y) THEN NaN
              ELSE Rat(x.n * y.d + y.n * x.d, x.d * y.d)

RSub(x, y) == IF IsNaN(x) \/ IsNaN(y) THEN NaN
              ELSE Rat(x.n * y.d - y.n * x.d, x.d * y.d)

RMul(x, y) == IF IsNaN(x) \/ IsNaN(y) THEN NaN
              ELSE Rat(x.n * y.n, x.d * y.d)

\* every comparison with NaN is false, as in IEEE 754
RLeq(x, y) == ~IsNaN(x) /\ ~IsNaN(y) /\ x.n * y.d <= y.n * x.d

RLt(x, y) == ~IsNaN(x) /\ ~IsNaN(y) /\ x.n * y.d < y.n * x.d

RGeq(x, y) == RLeq(y, x)

RGt(x, y) == RLt(y, x)

\* floor of a non-negative rational
RFloor(x) == x.n \div x.d

(***************************************************************************)
(* binary64 arithmetic of the recommendation score.  A value is            *)
(* t/10 + e * U with U = 1/(10 * 2^56); in units of U it is                *)
(* t * 2^56 + e.  The spacing of binary64 values in [2^k, 2^(k+1)) is      *)
(* 2^(k-52) = 10 * 2^(k+4) U.                                              *)
(***************************************************************************)
\* 2^56 mod 640 (640 U is twice the widest spacing used, that of [1, 2))
Pow56Mod ==
    LET p14 == (2 ^ 14) % 640
        p28 == (p14 * p14) % 640
    IN  (p28 * p28) % 640

F64(t, e) == [t |-> t, e |-> e]

\* the literals of engine.py, nearest binary64 to the decimal
Lit00 == F64(0, 0)
Lit01 == F64(1, 4)
Lit02 == F64(2, 8)
Lit03 == F64(3, -8)
Lit04 == F64(4, 16)
Lit06 == F64(6, -16)
Lit08 == F64(8, 32)

FLess(x, y) == x.t < y.t \/ (x.t = y.t /\ x.e < y.e)

FGeq(x, y) == ~FLess(x, y)

\* spacing, in U, of the binary64 values around the real number t/10 + e U
Spacing(t, e) ==
    LET below(k) == t < k \/ (t = k /\ e < 0)
    IN  IF below(1) THEN 5          \* [1/32, 1/16); only 0 itself occurs
        ELSE IF t = 1 THEN 10       \* [1/16, 1/8)
        ELSE IF t = 2 THEN 20       \* [1/8, 1/4)
        ELSE IF below(5) THEN 40    \* [1/4, 1/2)
        ELSE IF below(10) THEN 80   \* [1/2, 1)
        ELSE 160                    \* [1, 2)

\* round the real number t/10 + e U to the nearest binary64, ties to even
RoundF64(t, e) ==
    IF t = 0 /\ e = 0 THEN F64(0, 0)
    ELSE LET s    == Spacing(t, e)
             r    == (t * Pow56Mod + e) % s
             down == e - r
             up   == e + (s - r)
             \* the mantissa of the lower neighbour is even
             even == ((t * Pow56Mod + down) % (2 * s)) = 0
         IN  IF 2 * r < s THEN F64(t, down)
             ELSE IF 2 * r > s THEN F64(t, up)
             ELSE IF even THEN F64(t, down) ELSE F64(t, up)

\* recommendation_score += w
FAdd(x, w) == RoundF64(x.t + w.t, x.e + w.e)

(***************************************************************************)
(* The mailbox dataset: one MessageRecord per collected message.           *)
(***************************************************************************)
\* the From headers of the mailbox, in the order the senders first appear;
\* the mail of the fifth sender carries no From header, for which
\* _extract_header returns ''
SenderNames ==
    << "news@daily.com", "deals@shop.com", "Carol <carol@mail.com>",
       "carol@mail.com", "", "bob@mail.com", "zed@lists.org" >>

\* the same strings in Python's string order (groupby sorts its keys)
SortedNames ==
    << "", "Carol <carol@mail.com>", "bob@mail.com", "carol@mail.com",
       "deals@shop.com", "news@daily.com", "zed@lists.org" >>

\* the part between '<' and '>' of "Name <email>", else the whole string
Address(from) ==
    IF from = "Carol <carol@mail.com>" THEN "carol@mail.com" ELSE from

\* email.split('@')[1]; without a From value the record has no sender_domain
\* and the DataFrame holds NaN for it
sender_domain(from) ==
    CASE from = ""                -> "NaN"
      [] from = "news@daily.com"  -> "daily.com"
      [] from = "deals@shop.com"  -> "shop.com"
      [] from = "Carol <carol@mail.com>" -> "mail.com"
      [] from = "carol@mail.com"  -> "mail.com"
      [] from = "bob@mail.com"    -> "mail.com"
      [] from = "zed@lists.org"   -> "lists.org"
      [] OTHER -> from

\* _extract_message_metadata with _extract_derived_fields: the record of one
\* message, its flags read off the Gmail label ids
extract_message_metadata(msg_id, from, label_ids, hours, unsub, inbox) ==
    [ message_id          |-> msg_id,
      from                |-> from,
      list_unsubscribe    |-> unsub,
      arrival_datetime    |-> hours,
      sender_domain       |-> sender_domain(from),
      is_unread           |-> "UNREAD" \in label_ids,
      is_starred          |-> "STARRED" \in label_ids,
      is_important        |-> "IMPORTANT" \in label_ids,
      category_promotions |-> "CATEGORY_PROMOTIONS" \in label_ids,
      category_updates    |-> "CATEGORY_UPDATES" \in label_ids,
      category_social     |-> "CATEGORY_SOCIAL" \in label_ids,
      category_forums     |-> "CATEGORY_FORUMS" \in label_ids,
      category_personal   |-> "CATEGORY_PERSONAL" \in label_ids,
      has_unsubscribe     |-> unsub # "",
      source_inbox        |-> inbox ]

RawMail(labels, hours, unsub, inbox) ==
    [labels |-> labels, hours |-> hours, unsub |-> unsub, inbox |-> inbox]

UnsubHeader == "<https://x.com/unsub>, <mailto:a@b.com>"

MailtoHeader == "<mailto:leave@lists.org>"

\* more List-Unsubscribe values: words only, two URLs in one segment, a URL
\* and a mailto action in one segment without brackets, a scheme with
\* nothing behind it before a URL
WordsHeader == "reply to leave"

TwoUrlHeader == "<https://x.com/unsub> <https://x.com/other>"

BareHeader == "https://x.com/unsub mailto:a@b.com"

EmptyUrlHeader == "<https://> <http://y.org/u>, <mailto:leave@lists.org>"

\* The mail one sender has in the mailbox, by kind of sender.
MailKinds == {"quiet", "shop", "alerts"}

Mail(kind) ==
    CASE kind = "quiet" ->
           << RawMail({"STARRED", "CATEGORY_PERSONAL"}, 0, MailtoHeader,
                      "primary") >>
      [] kind = "shop" ->
           << RawMail({"UNREAD", "CATEGORY_PROMOTIONS"}, 0, "", "promotions"),
              RawMail({"CATEGORY_PROMOTIONS"}, 50, UnsubHeader, "promotions") >>
      [] kind = "alerts" ->
           << RawMail({"UNREAD", "STARRED", "CATEGORY_UPDATES"}, 0, "", "primary"),
              RawMail({"UNREAD", "CATEGORY_UPDATES"}, 10, "", "primary"),
              RawMail({"UNREAD", "CATEGORY_PROMOTIONS"}, 30, "", "promotions") >>
      [] kind = "plain" ->
           << RawMail({"CATEGORY_PERSONAL"}, 0, "", "primary") >>
      [] kind = "listed" ->
           << RawMail({"CATEGORY_PROMOTIONS"}, 0, UnsubHeader, "promotions"),
              RawMail({"CATEGORY_PROMOTIONS"}, 20, UnsubHeader, "promotions") >>
      [] kind = "wordy" ->
           << RawMail({"CATEGORY_UPDATES"}, 0, WordsHeader, "primary") >>
      [] kind = "paired" ->
           << RawMail({"CATEGORY_PROMOTIONS"}, 0, TwoUrlHeader, "promotions"),
              RawMail({"UNREAD"}, 5, "", "primary"),
              RawMail({"CATEGORY_PROMOTIONS"}, 9, BareHeader, "promotions") >>
      [] kind = "forwarded" ->
           << RawMail({"CATEGORY_FORUMS"}, 0, EmptyUrlHeader, "primary"),
              RawMail({"CATEGORY_FORUMS"}, 3, MailtoHeader, "primary") >>

\* collect_email_history: the records of the mailbox whose i-th sender's mail
\* is of kind kinds[i]
RECURSIVE collect_email_history(_, _, _)
collect_email_history(kinds, i, acc) ==
    IF i > Len(kinds) THEN acc
    ELSE LET mail == Mail(kinds[i])
             recs == [k \in 1 .. Len(mail) |->
                        extract_message_metadata(Len(acc) + k, SenderNames[i],
                            mail[k].labels, mail[k].hours, mail[k].unsub,
                            mail[k].inbox)]
         IN  collect_email_history(kinds, i + 1, acc \o recs)

KindSeqs(max) == UNION {[1 .. k -> MailKinds] : k \in 0 .. max}

Datasets(max) == {collect_email_history(ks, 1, << >>) : ks \in KindSeqs(max)}

\* The kinds of sender a mailbox for the link extraction has.
LinkKinds == {"plain", "listed", "wordy", "paired", "forwarded"}

LinkDatasets(max) ==
    {collect_email_history(ks, 1, << >>) :
        ks \in UNION {[1 .. k -> LinkKinds] : k \in 0 .. max}}

(***************************************************************************)
(* Sequence helpers.                                                       *)
(***************************************************************************)
CountTrue(s, flag) == Cardinality({i \in DOMAIN s : s[i][flag]})

SeqMin(s) == CHOOSE x \in {s[i] : i \in DOMAIN s} :
                \A y \in {s[i] : i \in DOMAIN s} : x <= y

SeqMax(s) == CHOOSE x \in {s[i] : i \in DOMAIN s} :
                \A y \in {s[i] : i \in DOMAIN s} : x >= y

\* insertion of x into a sequence of rationals sorted ascending
RECURSIVE RInsert(_, _)
RInsert(x, s) ==
    IF s = << >> THEN << x >>
    ELSE IF RLeq(x, Head(s)) THEN << x >> \o s
    ELSE << Head(s) >> \o RInsert(x, Tail(s))

RECURSIVE RSort(_)
RSort(s) == IF s = << >> THEN << >> ELSE RInsert(Head(s), RSort(Tail(s)))

(***************************************************************************)
(* pandas Series helpers.                                                  *)
(***************************************************************************)
\* Series.dropna()
dropna(values) == SelectSeq(values, LAMBDA x : ~IsNaN(x))

\* variant: the position is taken in a Series counted from one
QuantileCountBased(values, q) ==
    IF values = << >> THEN NaN
    ELSE LET v    == RSort(values)
             raw  == RMul(RInt(Len(v)), q)
             pos  == IF RGt(raw, RInt(Len(v) - 1)) THEN RInt(Len(v) - 1) ELSE raw
             i    == RFloor(pos)
             frac == RSub(pos, RInt(i))
         IN  IF frac.n = 0 THEN v[i + 1]
             ELSE RAdd(v[i + 1], RMul(RSub(v[i + 2], v[i + 1]), frac))

\* variant: the interpolation weighs the gap by the position, not by its
\* fractional part
QuantileOvershoot(values, q) ==
    IF values = << >> THEN NaN
    ELSE LET v    == RSort(values)
             pos  == RMul(RInt(Len(v) - 1), q)
             i    == RFloor(pos)
             frac == RSub(pos, RInt(i))
         IN  IF frac.n = 0 THEN v[i + 1]
             ELSE RAdd(v[i + 1], RMul(RSub(v[i + 2], v[i + 1]), pos))

\* Series.quantile(q), linear interpolation between order statistics; NaN on
\* an empty Series
quantile(values, q) ==
    IF values = << >> THEN NaN
    ELSE LET v    == RSort(values)
             pos  == RMul(RInt(Len(v) - 1), q)
             i    == RFloor(pos)
             frac == RSub(pos, RInt(i))
         IN  IF frac.n = 0 THEN v[i + 1]
             ELSE RAdd(v[i + 1], RMul(RSub(v[i + 2], v[i + 1]), frac))

\* Series.median() skips NaN
median(values) == quantile(dropna(values), Rat(1, 2))

Column(table, name) == [k \in 1 .. Len(table) |-> table[k][name]]

(***************************************************************************)
(* UnsubscribeEngine.analyze_sender_engagement                             *)
(***************************************************************************)
NoFocus == "None"

\* one row of df.groupby('from').agg(...) with the per-sender metrics
SenderRow(group) ==
    LET total   == Len(group)
        unread  == CountTrue(group, "is_unread")
        starred == CountTrue(group, "is_starred")
        import  == CountTrue(group, "is_important")
        promos  == CountTrue(group, "category_promotions")
        updates == CountTrue(group, "category_updates")
        social  == CountTrue(group, "category_social")
        first   == SeqMin(Column(group, "arrival_datetime"))
        last    == SeqMax(Column(group, "arrival_datetime"))
        days    == (last - first) \div 24
        clipped == IF days < 1 THEN 1 ELSE days
        rrate   == Rat(total - unread, total)
    IN  [ sender                  |-> group[1].from,
          total_emails            |-> total,
          unread_count            |-> unread,
          starred_count           |-> starred,
          important_count         |-> import,
          promotions_count        |-> promos,
          updates_count           |-> updates,
          social_count            |-> social,
          forums_count            |-> CountTrue(group, "category_forums"),
          personal_count          |-> CountTrue(group, "category_personal"),
          unsubscribe_links_count |-> CountTrue(group, "has_unsubscribe"),
          first_email_date        |-> first,
          last_email_date         |-> last,
          unsubscribe_link        |-> group[1].list_unsubscribe,
          domain                  |-> group[1].sender_domain,
          read_rate               |-> rrate,
          engagement_score        |-> RAdd(RAdd(RMul(RInt(starred), Rat(4, 10)),
                                                RMul(RInt(import), Rat(3, 10))),
                                           RMul(rrate, Rat(3, 10))),
          days_active             |-> days,
          emails_per_day          |-> Rat(total, clipped),
          promo_ratio             |-> Rat(promos, total),
          update_ratio            |-> Rat(updates, total),
          social_ratio            |-> Rat(social, total) ]

\* variant: the records are grouped by the address in the From header
GroupByAddress(data) ==
    LET present == SelectSeq(SortedNames,
                       LAMBDA name : /\ Address(name) = name
                                     /\ \E k \in DOMAIN data :
                                           Address(data[k].from) = name)
    IN  [g \in 1 .. Len(present) |->
            SelectSeq(data, LAMBDA m : Address(m.from) = present[g])]

\* the groups of df.groupby('from'), in sorted key order
GroupBy(data) ==
    LET present == SelectSeq(SortedNames,
                       LAMBDA name : \E k \in DOMAIN data : data[k].from = name)
    IN  [g \in 1 .. Len(present) |->
            SelectSeq(data, LAMBDA m : m.from = present[g])]

\* variant: every record of a sender seen in the inbox is kept
FocusFilterKeepsSenders(data, focus_inbox) ==
    IF focus_inbox # NoFocus
    THEN SelectSeq(data, LAMBDA m :
             \E k \in DOMAIN data : /\ data[k].from = m.from
                                     /\ data[k].source_inbox = focus_inbox)
    ELSE data

\* df = df[df['source_inbox'] == focus_inbox], if focus_inbox is given
FocusFilter(data, focus_inbox) ==
    IF focus_inbox # NoFocus
    THEN SelectSeq(data, LAMBDA m : m.source_inbox = focus_inbox)
    ELSE data

\* variant: the medians count as exceeded when they are reached
LikelyNewsletterNotBelow(row, promo_median, freq_median) ==
    \/ RGeq(row.promo_ratio, promo_median)
    \/ row.unsubscribe_links_count > 0
    \/ RGeq(row.emails_per_day, freq_median)

\* sender_stats['is_likely_newsletter']
is_likely_newsletter(row, promo_median, freq_median) ==
    \/ RGt(row.promo_ratio, promo_median)
    \/ row.unsubscribe_links_count > 0
    \/ RGt(row.emails_per_day, freq_median)

analyze_sender_engagement(data, focus_inbox) ==
    IF data = << >> THEN << >>
    ELSE LET filtered == FocusFilter(data, focus_inbox)
             groups   == GroupBy(filtered)
             rows     == [g \in 1 .. Len(groups) |-> SenderRow(groups[g])]
             promo_median == median(Column(rows, "promo_ratio"))
             freq_median  == median(Column(rows, "emails_per_day"))
         IN  [g \in 1 .. Len(rows) |->
                [is_likely_newsletter |->
                    is_likely_newsletter(rows[g], promo_median, freq_median)]
                @@ rows[g]]

\* a sender table whose metric columns in cols hold no defined value
WithUndefined(table, cols) ==
    [k \in 1 .. Len(table) |->
        [f \in DOMAIN table[k] |-> IF f \in cols THEN NaN ELSE table[k][f]]]

(***************************************************************************)
(* UnsubscribeEngine._calculate_data_driven_thresholds                     *)
(***************************************************************************)
\* the empty dict
NoThresholds == [k \in {} |-> NaN]

\* variant: the key is never found
GetDefault(dict, key, default) == default

\* dict.get(key, default)
Get(dict, key, default) == IF key \in DOMAIN dict THEN dict[key] ELSE default

\* variant: the two percentiles stored under each other's key
TierKeysSwapped(values, base, baseValue, very, veryValue) ==
    IF Len(values) > 0 THEN (base :> veryValue) @@ (very :> baseValue)
    ELSE NoThresholds

\* the two keys of one metric, present only if some sender has a value
TierKeys(values, base, baseValue, very, veryValue) ==
    IF Len(values) > 0 THEN (base :> baseValue) @@ (very :> veryValue)
    ELSE NoThresholds

\* variant: only the senders with more than one message are looked at
PopulationOfRepeatSenders(sender_stats) ==
    SelectSeq(sender_stats, LAMBDA row : row.total_emails > 1)

\* the population the thresholds are computed over: every row of the table
ThresholdPopulation(sender_stats) == sender_stats

\* the body of _calculate_data_driven_thresholds after its empty check
ThresholdsOf(sender_stats) ==
         LET pop               == ThresholdPopulation(sender_stats)
             engagement_scores == dropna(Column(pop, "engagement_score"))
             read_rates        == dropna(Column(pop, "read_rate"))
             promo_ratios      == dropna(Column(pop, "promo_ratio"))
             email_freqs       == dropna(Column(pop, "emails_per_day"))
         IN  TierKeys(engagement_scores,
                 "low_engagement", quantile(engagement_scores, Rat(25, 100)),
                 "very_low_engagement", quantile(engagement_scores, Rat(10, 100)))
             @@ TierKeys(read_rates,
                 "high_unread_rate",
                     RSub(RInt(1), quantile(read_rates, Rat(25, 100))),
                 "very_high_unread_rate",
                     RSub(RInt(1), quantile(read_rates, Rat(10, 100))))
             @@ TierKeys(promo_ratios,
                 "high_promo", quantile(promo_ratios, Rat(75, 100)),
                 "very_high_promo", quantile(promo_ratios, Rat(90, 100)))
             @@ TierKeys(email_freqs,
                 "high_frequency", quantile(email_freqs, Rat(75, 100)),
                 "very_high_frequency", quantile(email_freqs, Rat(90, 100)))
             @@ ("newsletter_promo_threshold" :> quantile(promo_ratios, Rat(1, 2)))
             @@ ("newsletter_frequency_threshold" :> quantile(email_freqs, Rat(1, 2)))

\* variant: no check for an empty table
CalculateUnguarded(sender_stats) == ThresholdsOf(sender_stats)

calculate_data_driven_thresholds(sender_stats) ==
    IF sender_stats = << >> THEN NoThresholds ELSE ThresholdsOf(sender_stats)

(***************************************************************************)
(* UnsubscribeEngine.generate_unsubscribe_recommendations: one sender      *)
(***************************************************************************)
\* f"{x:.3f}" and f"{x:.1%}": the value in thousandths, rounded
Format3(x) == (2 * 1000 * x.n + x.d) \div (2 * x.d)

Reason(text, value) == [text |-> text, value |-> Format3(value)]

\* variant: the checks leave the confidence alone
KeepConfidence(current, level) == current

\* confidence = level, as the checks assign it
AssignConfidence(current, level) == level

\* the state of the scoring of one sender
Fresh == [score |-> Lit00, reasons |-> << >>, confidence |-> "low"]

Contribute(acc, weight, text, value, level) ==
    [ score      |-> FAdd(acc.score, weight),
      reasons    |-> Append(acc.reasons, Reason(text, value)),
      confidence |-> AssignConfidence(acc.confidence, level) ]

\* variant: the base comparison is strict
CheckEngagementStrict(acc, sender, thresholds) ==
    IF "low_engagement" \in DOMAIN thresholds
       /\ RLt(sender.engagement_score, thresholds["low_engagement"])
    THEN IF RLeq(sender.engagement_score,
                 Get(thresholds, "very_low_engagement", RInt(0)))
         THEN Contribute(acc, Lit04, "Very low engagement (bottom 10%)",
                         sender.engagement_score, "high")
         ELSE Contribute(acc, Lit03, "Low engagement (bottom 25%)",
                         sender.engagement_score, "medium")
    ELSE acc

\* Check engagement patterns
CheckEngagement(acc, sender, thresholds) ==
    IF "low_engagement" \in DOMAIN thresholds
       /\ RLeq(sender.engagement_score, thresholds["low_engagement"])
    THEN IF RLeq(sender.engagement_score,
                 Get(thresholds, "very_low_engagement", RInt(0)))
         THEN Contribute(acc, Lit04, "Very low engagement (bottom 10%)",
                         sender.engagement_score, "high")
         ELSE Contribute(acc, Lit03, "Low engagement (bottom 25%)",
                         sender.engagement_score, "medium")
    ELSE acc

\* variant: the "very" comparison is strict
CheckUnreadVeryStrict(acc, sender, thresholds) ==
    LET unread_rate == RSub(RInt(1), sender.read_rate)
    IN  IF "high_unread_rate" \in DOMAIN thresholds
           /\ RGeq(unread_rate, thresholds["high_unread_rate"])
        THEN IF RGt(unread_rate,
                    Get(thresholds, "very_high_unread_rate", RInt(1)))
             THEN Contribute(acc, Lit03, "Very high unread rate (top 10%)",
                             unread_rate, "high")
             ELSE Contribute(acc, Lit02, "High unread rate (top 25%)",
                             unread_rate, "medium")
        ELSE acc

\* Check unread patterns
CheckUnread(acc, sender, thresholds) ==
    LET unread_rate == RSub(RInt(1), sender.read_rate)
    IN  IF "high_unread_rate" \in DOMAIN thresholds
           /\ RGeq(unread_rate, thresholds["high_unread_rate"])
        THEN IF RGeq(unread_rate,
                     Get(thresholds, "very_high_unread_rate", RInt(1)))
             THEN Contribute(acc, Lit03, "Very high unread rate (top 10%)",
                             unread_rate, "high")
             ELSE Contribute(acc, Lit02, "High unread rate (top 25%)",
                             unread_rate, "medium")
        ELSE acc

\* variant: the comparison written as "not below", which an undefined value
\* passes, and the key looked up with a default
CheckPromoNotBelow(acc, sender, thresholds) ==
    IF ~RLt(sender.promo_ratio, Get(thresholds, "high_promo", RInt(0)))
    THEN IF ~RLt(sender.promo_ratio, Get(thresholds, "very_high_promo", RInt(1)))
         THEN Contribute(acc, Lit03, "Very high promotional content (top 10%)",
                         RInt(0), "high")
         ELSE Contribute(acc, Lit02, "High promotional content (top 25%)",
                         RInt(0), "medium")
    ELSE acc

\* Check promotional content
CheckPromo(acc, sender, thresholds) ==
    IF "high_promo" \in DOMAIN thresholds
       /\ RGeq(sender.promo_ratio, thresholds["high_promo"])
    THEN IF RGeq(sender.promo_ratio, Get(thresholds, "very_high_promo", RInt(1)))
         THEN Contribute(acc, Lit03, "Very high promotional content (top 10%)",
                         sender.promo_ratio, "high")
         ELSE Contribute(acc, Lit02, "High promotional content (top 25%)",
                         sender.promo_ratio, "medium")
    ELSE acc

\* Check email frequency; the default of the "very" tier is float('inf'),
\* which no value reaches
CheckFrequency(acc, sender, thresholds) ==
    IF "high_frequency" \in DOMAIN thresholds
       /\ RGeq(sender.emails_per_day, thresholds["high_frequency"])
    THEN IF "very_high_frequency" \in DOMAIN thresholds
            /\ RGeq(sender.emails_per_day, thresholds["very_high_frequency"])
         THEN Contribute(acc, Lit02, "Very high frequency (top 10%)",
                         sender.emails_per_day, "high")
         ELSE Contribute(acc, Lit01, "High frequency (top 25%)",
                         sender.emails_per_day, "medium")
    ELSE acc

\* variant: the bonus weighs 0.2
UnsubscribeBonusDouble(acc, sender) ==
    IF sender.unsubscribe_links_count > 0
    THEN [acc EXCEPT !.score = FAdd(acc.score, Lit02),
                     !.reasons = Append(acc.reasons,
                                   [text |-> "Has unsubscribe link", value |-> 0])]
    ELSE acc

\* variant: the bonus is given only on top of another signal
UnsubscribeBonusNeedsSignal(acc, sender) ==
    IF sender.unsubscribe_links_count > 0 /\ acc.reasons # << >>
    THEN [acc EXCEPT !.score = FAdd(acc.score, Lit01),
                     !.reasons = Append(acc.reasons,
                                   [text |-> "Has unsubscribe link", value |-> 0])]
    ELSE acc

\* Bonus for having unsubscribe link
UnsubscribeBonus(acc, sender) ==
    IF sender.unsubscribe_links_count > 0
    THEN [acc EXCEPT !.score = FAdd(acc.score, Lit01),
                     !.reasons = Append(acc.reasons,
                                   [text |-> "Has unsubscribe link", value |-> 0])]
    ELSE acc

\* variant: the promotional content is checked before the unread rate
ScoreSenderPromoFirst(sender, thresholds) ==
    UnsubscribeBonus(
        CheckFrequency(
            CheckUnread(
                CheckPromo(
                    CheckEngagement(Fresh, sender, thresholds),
                    sender, thresholds),
                sender, thresholds),
            sender, thresholds),
        sender)

\* the checks in the order of the loop body
ScoreSender(sender, thresholds) ==
    UnsubscribeBonus(
        CheckFrequency(
            CheckPromo(
                CheckUnread(
                    CheckEngagement(Fresh, sender, thresholds),
                    sender, thresholds),
                sender, thresholds),
            sender, thresholds),
        sender)

\* thresholds.get(key) is None when the key is absent: a value apart from
\* every number and every text
None == [none |-> TRUE]

\* variant: a recommendation records the thresholds of the checks that gave
\* it a reason, None for the others
RecommendationOwnThresholds(sender, scored, thresholds) ==
    LET texts == {scored.reasons[k].text : k \in DOMAIN scored.reasons}
        fired == [ low_engagement |->
                      {"Very low engagement (bottom 10%)",
                       "Low engagement (bottom 25%)"} \cap texts # {},
                   high_unread_rate |->
                      {"Very high unread rate (top 10%)",
                       "High unread rate (top 25%)"} \cap texts # {},
                   high_promo |->
                      {"Very high promotional content (top 10%)",
                       "High promotional content (top 25%)"} \cap texts # {},
                   high_frequency |->
                      {"Very high frequency (top 10%)",
                       "High frequency (top 25%)"} \cap texts # {} ]
    IN  [ sender               |-> sender.sender,
          domain               |-> sender.domain,
          recommendation_score |-> scored.score,
          confidence           |-> scored.confidence,
          reasons              |-> scored.reasons,
          total_emails         |-> sender.total_emails,
          engagement_score     |-> sender.engagement_score,
          read_rate            |-> sender.read_rate,
          promo_ratio          |-> sender.promo_ratio,
          emails_per_day       |-> sender.emails_per_day,
          unsubscribe_link     |-> sender.unsubscribe_link,
          days_active          |-> sender.days_active,
          is_likely_newsletter |-> sender.is_likely_newsletter,
          thresholds_used      |->
              [k \in DOMAIN fired |->
                  IF fired[k] THEN Get(thresholds, k, None) ELSE None] ]

Recommendation(sender, scored, thresholds) ==
    [ sender               |-> sender.sender,
      domain               |-> sender.domain,
      recommendation_score |-> scored.score,
      confidence           |-> scored.confidence,
      reasons              |-> scored.reasons,
      total_emails         |-> sender.total_emails,
      engagement_score     |-> sender.engagement_score,
      read_rate            |-> sender.read_rate,
      promo_ratio          |-> sender.promo_ratio,
      emails_per_day       |-> sender.emails_per_day,
      unsubscribe_link     |-> sender.unsubscribe_link,
      days_active          |-> sender.days_active,
      is_likely_newsletter |-> sender.is_likely_newsletter,
      thresholds_used      |->
          [k \in {"low_engagement", "high_unread_rate", "high_promo",
                  "high_frequency"} |-> Get(thresholds, k, None)] ]

\* variant: the bound is off by one
SkippedOffByOne(sender, min_emails) == sender.total_emails < min_emails - 1

\* if sender['total_emails'] < min_emails: continue
Skipped(sender, min_emails) == sender.total_emails < min_emails

\* variant: the comparison is strict
IncludedStrict(scored) == FLess(Lit03, scored.score)

\* if recommendation_score >= 0.3
Included(scored) == FGeq(scored.score, Lit03)

\* recommendations.sort(key=score, reverse=True): stable, highest first
RECURSIVE InsertByScore(_, _)
InsertByScore(rec, sorted) ==
    IF sorted = << >> THEN << rec >>
    ELSE IF FLess(Head(sorted).recommendation_score, rec.recommendation_score)
         THEN << rec >> \o sorted
         ELSE << Head(sorted) >> \o InsertByScore(rec, Tail(sorted))

\* variant: the list is returned as the loop built it
SortSkipped(recs) == recs

RECURSIVE SortByScore(_)
SortByScore(recs) ==
    IF recs = << >> THEN << >>
    ELSE InsertByScore(recs[Len(recs)], SortByScore(SubSeq(recs, 1, Len(recs) - 1)))

(***************************************************************************)
(* State: the mailbox dataset, one engine instance and the runs on it.     *)
(***************************************************************************)
VARIABLES
    df,               \* the mailbox dataset handed to every run
    nan_columns,      \* metric columns without a defined value in the tables
                      \* handed to the scorer
    self_thresholds,  \* UnsubscribeEngine.thresholds
    pc,               \* where each run stands
    focus_inbox,      \* analyze_sender_engagement's focus_inbox, per run
    sender_stats,     \* the sender table of each run
    min_emails,       \* generate_unsubscribe_recommendations' min_emails
    thresholds,       \* the local thresholds of each run
    idx,              \* the row the scoring loop of each run is at
    recommendations,  \* the local recommendations list of each run
    returned,         \* what the run's call returned
    links_pc,         \* where the call of extract_unsubscribe_links stands
    unsubscribe_data, \* extract_unsubscribe_links' dict while it is filled
    email_idx,        \* the row extract_unsubscribe_links' loop is at
    unsubscribe_links,\* what extract_unsubscribe_links returned
    priorities,       \* the Priority column of the analyze table, per run
    report            \* what generate_unsubscribe_report put out, per run

\* the state of the link extraction and of the two displays
output_vars == << links_pc, unsubscribe_data, email_idx, unsubscribe_links, priorities,
                 report >>

vars == << df, nan_columns, self_thresholds, pc, focus_inbox, sender_stats,
           min_emails, thresholds, idx, recommendations, returned,
           links_pc, unsubscribe_data, email_idx, unsubscribe_links, priorities,
           report >>

Runs == {1, 2}

\* min_emails: int = 5
DefaultMinEmails == 5

MinEmailsChoices == 1 .. MaxMinEmails

FocusChoices == {NoFocus, "promotions"}

Metrics == {"engagement_score", "read_rate", "promo_ratio", "emails_per_day"}

NanChoices == {{}} \cup {{m} : m \in Metrics}

\* nothing extracted, shown or reported yet
NoReport == [written |-> FALSE]

InitOutput ==
    /\ links_pc = "idle"
    /\ unsubscribe_data = << >>
    /\ email_idx = 0
    /\ unsubscribe_links = << >>
    /\ priorities = [r \in Runs |-> << >>]
    /\ report = [r \in Runs |-> NoReport]

InitEngine ==
    /\ self_thresholds = NoThresholds
    /\ pc = [r \in Runs |-> "idle"]
    /\ focus_inbox = [r \in Runs |-> NoFocus]
    /\ sender_stats = [r \in Runs |-> << >>]
    /\ min_emails = [r \in Runs |-> DefaultMinEmails]
    /\ thresholds = [r \in Runs |-> NoThresholds]
    /\ idx = [r \in Runs |-> 0]
    /\ recommendations = [r \in Runs |-> << >>]
    /\ returned = [r \in Runs |-> << >>]
    /\ InitOutput

\* two runs on one engine over a mailbox of at most MaxSendersShared senders
Init ==
    /\ df \in Datasets(MaxSendersShared)
    /\ nan_columns = {}
    /\ InitEngine

\* one run over a mailbox of at most MaxSenders senders, the table possibly
\* lacking the values of one metric
InitScorer ==
    /\ df \in Datasets(MaxSenders)
    /\ nan_columns \in NanChoices
    /\ InitEngine

\* sender_stats = engine.analyze_sender_engagement(df, focus_inbox=focus_inbox)
analyze(r) ==
    /\ pc[r] = "idle"
    /\ \E focus \in FocusChoices :
          /\ focus_inbox' = [focus_inbox EXCEPT ![r] = focus]
          /\ sender_stats' = [sender_stats EXCEPT ![r] =
                                 analyze_sender_engagement(df, focus)]
    /\ pc' = [pc EXCEPT ![r] = "analyzed"]
    /\ UNCHANGED << df, nan_columns, self_thresholds, min_emails, thresholds,
                    idx, recommendations, returned >>
    /\ UNCHANGED output_vars

\* the table a caller hands to the engine
Table(r) == WithUndefined(sender_stats[r], nan_columns)

\* variant: the scorer takes the thresholds the engine held before the call
LocalFromCache(derived, cached) == cached

\* thresholds = self._calculate_data_driven_thresholds(sender_stats): the
\* local name is bound to the value the call returns
LocalThresholds(derived, cached) == derived

\* engine._calculate_data_driven_thresholds(sender_stats), called on its own
calculate_thresholds(r) ==
    /\ pc[r] = "analyzed"
    /\ LET derived == calculate_data_driven_thresholds(Table(r))
       IN  /\ thresholds' = [thresholds EXCEPT ![r] =
                                LocalThresholds(derived, self_thresholds)]
           /\ self_thresholds' =
                 IF Table(r) = << >> THEN self_thresholds ELSE derived
    /\ pc' = [pc EXCEPT ![r] = "thresholds_shown"]
    /\ UNCHANGED << df, nan_columns, focus_inbox, sender_stats, min_emails, idx,
                    recommendations, returned >>
    /\ UNCHANGED output_vars

\* generate_unsubscribe_recommendations up to the loop: the empty check, the
\* thresholds and the check that there are any
generate_begin(r) ==
    /\ pc[r] = "analyzed"
    /\ \E m \in MinEmailsChoices : min_emails' = [min_emails EXCEPT ![r] = m]
    /\ sender_stats' = [sender_stats EXCEPT ![r] = Table(r)]
    /\ IF Table(r) = << >>
       THEN /\ pc' = [pc EXCEPT ![r] = "returned"]
            /\ UNCHANGED << self_thresholds, thresholds, idx >>
       ELSE LET derived == calculate_data_driven_thresholds(Table(r))
                th      == LocalThresholds(derived, self_thresholds)
            IN  /\ self_thresholds' = derived
                /\ thresholds' = [thresholds EXCEPT ![r] = th]
                /\ idx' = [idx EXCEPT ![r] = IF DOMAIN th = {} THEN @ ELSE 1]
                /\ pc' = [pc EXCEPT ![r] =
                             IF DOMAIN th = {} THEN "returned" ELSE "scoring"]
    /\ UNCHANGED << df, nan_columns, focus_inbox, recommendations, returned >>
    /\ UNCHANGED output_vars

\* the thresholds the loop body reads
ScoringThresholds(r) == thresholds[r]

\* one iteration of: for _, sender in sender_stats.iterrows()
score_next(r) ==
    /\ pc[r] = "scoring"
    /\ idx[r] <= Len(sender_stats[r])
    /\ LET sender == sender_stats[r][idx[r]]
           scored == ScoreSender(sender, ScoringThresholds(r))
       IN  recommendations' = [recommendations EXCEPT ![r] =
               IF ~Skipped(sender, min_emails[r]) /\ Included(scored)
               THEN Append(@, Recommendation(sender, scored, ScoringThresholds(r)))
               ELSE @]
    /\ idx' = [idx EXCEPT ![r] = @ + 1]
    /\ UNCHANGED << df, nan_columns, self_thresholds, pc, focus_inbox,
                    sender_stats, min_emails, thresholds, returned >>
    /\ UNCHANGED output_vars

\* the loop is over: sort and return
finish(r) ==
    /\ pc[r] = "scoring"
    /\ idx[r] > Len(sender_stats[r])
    /\ returned' = [returned EXCEPT ![r] = SortByScore(recommendations[r])]
    /\ pc' = [pc EXCEPT ![r] = "returned"]
    /\ UNCHANGED << df, nan_columns, self_thresholds, focus_inbox, sender_stats,
                    min_emails, thresholds, idx, recommendations >>
    /\ UNCHANGED output_vars

Next ==
    \E r \in Runs :
        \/ analyze(r)
        \/ calculate_thresholds(r)
        \/ generate_begin(r)
        \/ score_next(r)
        \/ finish(r)

Spec == Init /\ [][Next]_vars

(***************************************************************************)
(* The two displays of a returned list: the table of analyze_cmd and       *)
(* UnsubscribeEngine.generate_unsubscribe_report.                          *)
(***************************************************************************)
\* variant: the band is read off the score as the table prints it, "{:.2f}"
PriorityOfPrinted(score) ==
    IF score.t >= 8 THEN "HIGH" ELSE IF score.t >= 6 THEN "MED" ELSE "LOW"

\* if score >= 0.8: HIGH, elif score >= 0.6: MED, else: LOW
Priority(score) ==
    IF FGeq(score, Lit08) THEN "HIGH"
    ELSE IF FGeq(score, Lit06) THEN "MED"
    ELSE "LOW"

\* recommendations[:10]
Top(recs, n) == SubSeq(recs, 1, IF Len(recs) < n THEN Len(recs) ELSE n)

\* the table of analyze_cmd: one row per recommendation of the top ten
show_table(r) ==
    /\ pc[r] = "returned"
    /\ priorities' = [priorities EXCEPT ![r] =
          [k \in DOMAIN Top(returned[r], 10) |->
              Priority(returned[r][k].recommendation_score)]]
    /\ pc' = [pc EXCEPT ![r] = "shown"]
    /\ UNCHANGED << df, nan_columns, self_thresholds, focus_inbox, sender_stats,
                    min_emails, thresholds, idx, recommendations, returned,
                    links_pc, unsubscribe_data, email_idx, unsubscribe_links,
                    report >>

\* r['recommendation_score'] >= 0.8
InHigh(score) == FGeq(score, Lit08)

\* 0.6 <= r['recommendation_score'] < 0.8
InMedium(score) == FGeq(score, Lit06) /\ FLess(score, Lit08)

\* r['recommendation_score'] < 0.6
InLow(score) == FLess(score, Lit06)

InBand(band, score) ==
    CASE band = "high"   -> InHigh(score)
      [] band = "medium" -> InMedium(score)
      [] band = "low"    -> InLow(score)

\* [r for r in recommendations if <band>]
RECURSIVE OfBand(_, _, _)
OfBand(recs, band, k) ==
    IF k > Len(recs) THEN << >>
    ELSE (IF InBand(band, recs[k].recommendation_score)
          THEN << recs[k] >> ELSE << >>) \o OfBand(recs, band, k + 1)

RECURSIVE TotalEmails(_, _)
TotalEmails(recs, k) ==
    IF k > Len(recs) THEN 0 ELSE recs[k].total_emails + TotalEmails(recs, k + 1)

\* the section "Data-Driven Thresholds Used": the entries of
\* recommendations[0]['thresholds_used'] that are not None, as printed
ShownThresholds(recs) ==
    LET used == recs[1].thresholds_used
    IN  [key \in {k \in DOMAIN used : used[k] # None} |-> Format3(used[key])]

generate_unsubscribe_report(recs, links) ==
    IF recs = << >>
    THEN [written |-> TRUE, text |-> "No unsubscribe recommendations found."]
    ELSE [ written      |-> TRUE,
           total        |-> Len(recs),
           high         |-> OfBand(recs, "high", 1),
           medium       |-> OfBand(recs, "medium", 1),
           low          |-> OfBand(recs, "low", 1),
           high_count   |-> Len(OfBand(recs, "high", 1)),
           medium_count |-> Len(OfBand(recs, "medium", 1)),
           low_count    |-> Len(OfBand(recs, "low", 1)),
           total_emails |-> TotalEmails(recs, 1),
           thresholds   |-> ShownThresholds(recs) ]

\* engine.save_recommendations(recommendations, unsubscribe_links) writes the
\* report of the list
generate_report(r) ==
    /\ pc[r] = "shown"
    /\ report' = [report EXCEPT ![r] =
                     generate_unsubscribe_report(returned[r], unsubscribe_links)]
    /\ pc' = [pc EXCEPT ![r] = "reported"]
    /\ UNCHANGED << df, nan_columns, self_thresholds, focus_inbox, sender_stats,
                    min_emails, thresholds, idx, recommendations, returned,
                    links_pc, unsubscribe_data, email_idx, unsubscribe_links,
                    priorities >>

\* a single run on the engine, its list shown and reported
NextScorer ==
    \/ analyze(1)
    \/ calculate_thresholds(1)
    \/ generate_begin(1)
    \/ score_next(1)
    \/ finish(1)
    \/ show_table(1)
    \/ generate_report(1)

SpecScorer == InitScorer /\ [][NextScorer]_vars

(***************************************************************************)
(* A sender table built by the caller and handed to                        *)
(* generate_unsubscribe_recommendations directly.                          *)
(***************************************************************************)
\* the engagement scores a caller fills in
ScenarioEngagements == {Rat(1, 10), Rat(2, 10), Rat(5, 10), Rat(8, 10), Rat(9, 10)}

\* "plain": every sender has 10 mails, all read, none promotional, no
\* unsubscribe header; "mixed": every other sender has 2 mails, half of them
\* promotional and unread, and an unsubscribe header; "steady": as "plain",
\* but the k-th sender has k mails in ten days
ScenarioVariations == {"plain", "mixed", "steady"}

ScenarioRow(k, engagement, variation) ==
    LET odd == variation = "mixed" /\ k % 2 = 1
    IN  [ sender                  |-> SortedNames[k + 1],
          domain                  |-> sender_domain(SortedNames[k + 1]),
          total_emails            |-> IF odd THEN 2 ELSE 10,
          unsubscribe_links_count |-> IF odd THEN 1 ELSE 0,
          unsubscribe_link        |-> IF odd THEN MailtoHeader ELSE "",
          read_rate               |-> IF odd THEN Rat(1, 2) ELSE RInt(1),
          engagement_score        |-> engagement,
          days_active             |-> 10,
          emails_per_day          |-> IF odd THEN Rat(2, 10)
                                      ELSE IF variation = "steady"
                                      THEN Rat(k, 10) ELSE RInt(1),
          promo_ratio             |-> IF odd THEN Rat(1, 2) ELSE RInt(0),
          is_likely_newsletter    |-> odd ]

\* the engagement columns of n senders, ascending or descending along the
\* table
ScenarioColumns(n) ==
    LET ascending == {e \in [1 .. n -> ScenarioEngagements] :
                        \A k \in 1 .. n - 1 : RLeq(e[k], e[k + 1])}
    IN  ascending \cup {[k \in 1 .. n |-> e[n + 1 - k]] : e \in ascending}

ScenarioTables(max) ==
    UNION { { [k \in 1 .. n |-> ScenarioRow(k, e[k], variation)] :
                e \in ScenarioColumns(n) } :
            n \in 1 .. max, variation \in ScenarioVariations }

InitScenario ==
    /\ df = << >>
    /\ nan_columns = {}
    /\ self_thresholds = NoThresholds
    /\ pc = [r \in Runs |-> IF r = 1 THEN "analyzed" ELSE "idle"]
    /\ focus_inbox = [r \in Runs |-> NoFocus]
    /\ sender_stats \in {[r \in Runs |-> IF r = 1 THEN t ELSE << >>] :
                            t \in ScenarioTables(MaxScenarioSenders)}
    /\ min_emails = [r \in Runs |-> DefaultMinEmails]
    /\ thresholds = [r \in Runs |-> NoThresholds]
    /\ idx = [r \in Runs |-> 0]
    /\ recommendations = [r \in Runs |-> << >>]
    /\ returned = [r \in Runs |-> << >>]
    /\ InitOutput

NextScenario ==
    \/ calculate_thresholds(1)
    \/ generate_begin(1)
    \/ score_next(1)
    \/ finish(1)

SpecScenario == InitScenario /\ [][NextScenario]_vars

(***************************************************************************)
(* UnsubscribeEngine._parse_unsubscribe_links: a header text is read piece *)
(* by piece, a piece being a separator character the patterns tell apart,  *)
(* a scheme, or a run of other characters.                                 *)
(***************************************************************************)
HeaderPieces ==
    { << "<", "https://", "x.com/unsub", ">", ",", " ",
         "<", "mailto:", "a@b.com", ">" >>,
      << "<", "mailto:", "leave@lists.org", ">" >>,
      << "reply", " ", "to", " ", "leave" >>,
      << "<", "https://", "x.com/unsub", ">", " ",
         "<", "https://", "x.com/other", ">" >>,
      << "https://", "x.com/unsub", " ", "mailto:", "a@b.com" >>,
      << "<", "https://", ">", " ", "<", "http://", "y.org/u", ">", ",", " ",
         "<", "mailto:", "leave@lists.org", ">" >> }

\* the text a sequence of pieces spells
RECURSIVE Join(_)
Join(pieces) ==
    IF pieces = << >> THEN "" ELSE Head(pieces) \o Join(Tail(pieces))

\* the pieces of a header text
Pieces(text) == CHOOSE pieces \in HeaderPieces : Join(pieces) = text

\* \s
Whitespace == {" "}

\* [^\s>]: what a link does not run over
Stops == Whitespace \cup {">"}

\* text.split(sep)
RECURSIVE split(_, _)
split(pieces, sep) ==
    LET at == {k \in DOMAIN pieces : pieces[k] = sep}
    IN  IF at = {} THEN << pieces >>
        ELSE LET k == CHOOSE k \in at : \A j \in at : k <= j
             IN  << SubSeq(pieces, 1, k - 1) >>
                 \o split(SubSeq(pieces, k + 1, Len(pieces)), sep)

\* part.strip()
RECURSIVE strip(_)
strip(part) ==
    IF part = << >> THEN part
    ELSE IF Head(part) \in Whitespace THEN strip(Tail(part))
    ELSE IF part[Len(part)] \in Whitespace
         THEN strip(SubSeq(part, 1, Len(part) - 1))
    ELSE part

\* the last piece of the longest run without a stop that begins at k
RunEnd(part, k) ==
    LET stops == {j \in k .. Len(part) : part[j] \in Stops}
    IN  IF stops = {} THEN Len(part)
        ELSE (CHOOSE j \in stops : \A i \in stops : j <= i) - 1

\* where a scheme is followed by at least one character a link runs over
MatchStarts(schemes, part) ==
    {k \in DOMAIN part : /\ part[k] \in schemes
                         /\ k < Len(part)
                         /\ part[k + 1] \notin Stops}

\* re.search(scheme [^\s>]+, part): the leftmost match if there is one, as
\* a list of at most one text
re_search(schemes, part) ==
    LET starts == MatchStarts(schemes, part)
    IN  IF starts = {} THEN << >>
        ELSE LET k == CHOOSE k \in starts : \A j \in starts : k <= j
             IN  << Join(SubSeq(part, k, RunEnd(part, k + 1))) >>

\* the links of one segment: its URL, then its mailto action
PartLinks(part) ==
    LET url_match    == re_search({"https://", "http://"}, strip(part))
        mailto_match == re_search({"mailto:"}, strip(part))
    IN  url_match \o mailto_match

RECURSIVE ConcatLinks(_, _)
ConcatLinks(parts, k) ==
    IF k > Len(parts) THEN << >>
    ELSE PartLinks(parts[k]) \o ConcatLinks(parts, k + 1)

parse_unsubscribe_links(unsubscribe_text) ==
    ConcatLinks(split(Pieces(unsubscribe_text), ","), 1)

(***************************************************************************)
(* UnsubscribeEngine.extract_unsubscribe_links.                            *)
(***************************************************************************)
RECURSIVE SelectRows(_, _)
SelectRows(data, k) ==
    IF k > Len(data) THEN << >>
    ELSE (IF data[k].list_unsubscribe # "" THEN << data[k] >> ELSE << >>)
         \o SelectRows(data, k + 1)

\* df[df['list_unsubscribe'].notna() & (df['list_unsubscribe'] != '')]
emails_with_unsubscribe(data) == SelectRows(data, 1)

\* variant: a sender gets an entry with its first link
WithLinksIfAny(data, sender, links) ==
    IF links = << >> THEN data
    ELSE [s \in DOMAIN data \cup {sender} |->
             IF s = sender THEN Get(data, sender, << >>) \o links ELSE data[s]]

\* if sender not in unsubscribe_data: unsubscribe_data[sender] = [], then
\* unsubscribe_data[sender].extend(links)
WithLinks(data, sender, links) ==
    [s \in DOMAIN data \cup {sender} |->
        IF s = sender THEN Get(data, sender, << >>) \o links ELSE data[s]]

\* variant: the list as it was filled
DedupeKeepsAll(links) == {links}

\* list(set(links)): each distinct link once, in an order the set decides
Dedupe(links) ==
    LET distinct == {links[k] : k \in DOMAIN links}
        n        == Cardinality(distinct)
    IN  {order \in [1 .. n -> distinct] :
            {order[k] : k \in 1 .. n} = distinct}

\* unsubscribe_data = {} and the filter
extract_begin ==
    /\ links_pc = "idle"
    /\ unsubscribe_data' = << >>
    /\ email_idx' = 1
    /\ links_pc' = "extracting"
    /\ UNCHANGED << df, nan_columns, self_thresholds, pc, focus_inbox,
                    sender_stats, min_emails, thresholds, idx, recommendations,
                    returned, unsubscribe_links, priorities, report >>

\* one iteration of: for _, email in emails_with_unsubscribe.iterrows()
extract_next ==
    /\ links_pc = "extracting"
    /\ email_idx <= Len(emails_with_unsubscribe(df))
    /\ LET email == emails_with_unsubscribe(df)[email_idx]
           links == parse_unsubscribe_links(email.list_unsubscribe)
       IN  unsubscribe_data' = WithLinks(unsubscribe_data, email.from, links)
    /\ email_idx' = email_idx + 1
    /\ UNCHANGED << df, nan_columns, self_thresholds, pc, focus_inbox,
                    sender_stats, min_emails, thresholds, idx, recommendations,
                    returned, links_pc, unsubscribe_links, priorities, report >>

\* the loop is over: remove duplicates and return
extract_finish ==
    /\ links_pc = "extracting"
    /\ email_idx > Len(emails_with_unsubscribe(df))
    /\ unsubscribe_links' \in
          {m \in [DOMAIN unsubscribe_data ->
                     UNION {Dedupe(unsubscribe_data[s]) :
                               s \in DOMAIN unsubscribe_data}] :
              \A s \in DOMAIN unsubscribe_data :
                  m[s] \in Dedupe(unsubscribe_data[s])}
    /\ links_pc' = "returned"
    /\ UNCHANGED << df, nan_columns, self_thresholds, pc, focus_inbox,
                    sender_stats, min_emails, thresholds, idx, recommendations,
                    returned, unsubscribe_data, email_idx, priorities, report >>

\* the link extraction alone, over a mailbox of at most MaxLinkSenders senders
InitLinks ==
    /\ df \in LinkDatasets(MaxLinkSenders)
    /\ nan_columns = {}
    /\ InitEngine

NextLinks ==
    \/ extract_begin
    \/ extract_next
    \/ extract_finish

SpecLinks == InitLinks /\ [][NextLinks]_vars

(***************************************************************************)
(* Vocabulary of the properties.                                           *)
(***************************************************************************)
\* the rows the loop of run r has passed
Passed(r) == 1 .. (IF idx[r] = 0 THEN 0 ELSE idx[r] - 1)

Range(seq) == {seq[k] : k \in DOMAIN seq}

VeryTexts == { "Very low engagement (bottom 10%)",
               "Very high unread rate (top 10%)",
               "Very high promotional content (top 10%)",
               "Very high frequency (top 10%)" }

BaseTexts == { "Low engagement (bottom 25%)",
               "High unread rate (top 25%)",
               "High promotional content (top 25%)",
               "High frequency (top 25%)" }

Texts(rec) == {reason.text : reason \in Range(rec.reasons)}

\* the level a reason's check asserted
AssertedLevels(rec) ==
    [k \in 1 .. Len(rec.reasons) |->
        IF rec.reasons[k].text \in VeryTexts THEN "high"
        ELSE IF rec.reasons[k].text \in BaseTexts THEN "medium"
        ELSE "low"]

LevelRank(level) == CASE level = "low" -> 0 [] level = "medium" -> 1
                      [] level = "high" -> 2

\* the row of run r's table a recommendation was made from
RowOf(r, rec) == CHOOSE k \in DOMAIN sender_stats[r] :
                    sender_stats[r][k].sender = rec.sender

RECURSIVE SumF64(_)
SumF64(weights) ==
    IF weights = << >> THEN Lit00
    ELSE FAdd(SumF64(SubSeq(weights, 1, Len(weights) - 1)), weights[Len(weights)])

\* C1: across the four ordered checks the confidence of a sender never
\* decreases: the emitted confidence is the highest level any of its checks
\* asserted ("high" once any check asserted "high", whatever came later).
C1_ConfidenceMonotone ==
    \A r \in Runs : \A rec \in Range(recommendations[r]) :
        \A k \in DOMAIN rec.reasons :
            LevelRank(rec.confidence) >= LevelRank(AssertedLevels(rec)[k])

\* C2: a sender with total_emails >= min_emails is emitted exactly when its
\* cumulative score is >= 0.3; one below 0.3 does not appear, and the run
\* goes on.
C2_EmittedIffScoreReached ==
    \A r \in Runs :
        /\ \A k \in Passed(r) :
              LET sender == sender_stats[r][k]
                  score  == ScoreSender(sender, thresholds[r]).score
              IN  sender.total_emails >= min_emails[r] =>
                    ((\E rec \in Range(recommendations[r]) :
                          rec.sender = sender.sender)
                     <=> ~FLess(score, Lit03))
        /\ \A rec \in Range(recommendations[r]) :
              ~FLess(rec.recommendation_score, Lit03)

C2_Witness ==
    /\ pc[1] = "returned"
    /\ \E k \in Passed(1) :
          /\ sender_stats[1][k].total_emails >= min_emails[1]
          /\ ScoreSender(sender_stats[1][k], thresholds[1]).score.t \in {1, 2}
          /\ \A rec \in Range(returned[1]) :
                rec.sender # sender_stats[1][k].sender
    /\ returned[1] # << >>

\* C3: no sender with total_emails < min_emails is in the output, whatever
\* its metrics.
C3_BelowMinEmailsNeverEmitted ==
    \A r \in Runs :
        \A rec \in Range(recommendations[r]) \cup Range(returned[r]) :
            rec.total_emails >= min_emails[r]

C3_Witness ==
    /\ pc[1] = "returned"
    /\ returned[1] # << >>
    /\ \E k \in Passed(1) :
          /\ sender_stats[1][k].total_emails < min_emails[1]
          /\ ~FLess(ScoreSender(sender_stats[1][k], thresholds[1]).score, Lit03)

\* C4: the returned list is in non-increasing order of recommendation_score
\* and recommendations of equal score are in the order of their rows in
\* sender_stats.
C4_SortedStable ==
    \A r \in Runs :
        pc[r] = "returned" =>
          /\ Range(returned[r]) = Range(recommendations[r])
          /\ Len(returned[r]) = Len(recommendations[r])
          /\ \A i, j \in DOMAIN returned[r] :
                i < j =>
                  /\ ~FLess(returned[r][i].recommendation_score,
                            returned[r][j].recommendation_score)
                  /\ returned[r][i].recommendation_score
                        = returned[r][j].recommendation_score
                     => RowOf(r, returned[r][i]) < RowOf(r, returned[r][j])

C4_Witness ==
    /\ pc[1] = "returned"
    /\ returned[1] # recommendations[1]
    /\ \E i, j \in DOMAIN returned[1] :
          /\ i < j
          /\ returned[1][i].recommendation_score
                = returned[1][j].recommendation_score
    /\ \E i, j \in DOMAIN returned[1] :
          returned[1][i].recommendation_score.t
            = returned[1][j].recommendation_score.t
          /\ returned[1][i].recommendation_score.e
            # returned[1][j].recommendation_score.e

\* the weight a check contributes, as the tiers are documented: the "very"
\* weight if the metric is beyond the "very" threshold, else the base weight
\* if it is beyond the base threshold, else nothing
TierWeight(beyondVery, veryWeight, beyondBase, baseWeight) ==
    IF beyondVery THEN << veryWeight >>
    ELSE IF beyondBase THEN << baseWeight >>
    ELSE << >>

Has(th, key) == key \in DOMAIN th

ExpectedWeights(sender, th) ==
    LET unread_rate == RSub(RInt(1), sender.read_rate)
    IN  TierWeight(
            Has(th, "very_low_engagement")
              /\ RLeq(sender.engagement_score, th["very_low_engagement"]), Lit04,
            Has(th, "low_engagement")
              /\ RLeq(sender.engagement_score, th["low_engagement"]), Lit03)
        \o TierWeight(
            Has(th, "very_high_unread_rate")
              /\ RGeq(unread_rate, th["very_high_unread_rate"]), Lit03,
            Has(th, "high_unread_rate")
              /\ RGeq(unread_rate, th["high_unread_rate"]), Lit02)
        \o TierWeight(
            Has(th, "very_high_promo")
              /\ RGeq(sender.promo_ratio, th["very_high_promo"]), Lit03,
            Has(th, "high_promo")
              /\ RGeq(sender.promo_ratio, th["high_promo"]), Lit02)
        \o TierWeight(
            Has(th, "very_high_frequency")
              /\ RGeq(sender.emails_per_day, th["very_high_frequency"]), Lit02,
            Has(th, "high_frequency")
              /\ RGeq(sender.emails_per_day, th["high_frequency"]), Lit01)
        \o (IF sender.unsubscribe_links_count > 0 THEN << Lit01 >> ELSE << >>)

\* C5: the recommendation_score of an emitted sender is the sum, in the
\* order of the checks, of the documented contributions and nothing else:
\* per check the "very" weight or else the base weight, plus 0.1 for an
\* unsubscribe header.
C5_ScoreIsSumOfContributions ==
    \A r \in Runs : \A rec \in Range(recommendations[r]) :
        /\ rec.recommendation_score
             = SumF64(ExpectedWeights(sender_stats[r][RowOf(r, rec)], thresholds[r]))
        /\ Len(rec.reasons)
             = Len(ExpectedWeights(sender_stats[r][RowOf(r, rec)], thresholds[r]))

C5_Witness ==
    \E rec \in Range(recommendations[1]) :
        /\ Len(rec.reasons) = 5
        /\ Texts(rec) \cap VeryTexts # {}
        /\ Texts(rec) \cap BaseTexts # {}

\* the reason texts and the base threshold key of each check
CheckTexts(key) ==
    CASE key = "low_engagement" ->
           {"Very low engagement (bottom 10%)", "Low engagement (bottom 25%)"}
      [] key = "high_unread_rate" ->
           {"Very high unread rate (top 10%)", "High unread rate (top 25%)"}
      [] key = "high_promo" ->
           {"Very high promotional content (top 10%)",
            "High promotional content (top 25%)"}
      [] key = "high_frequency" ->
           {"Very high frequency (top 10%)", "High frequency (top 25%)"}

BaseKeys == {"low_engagement", "high_unread_rate", "high_promo", "high_frequency"}

\* the tenths a reason stands for
ReasonTenths(text) ==
    CASE text = "Very low engagement (bottom 10%)" -> 4
      [] text \in {"Low engagement (bottom 25%)",
                   "Very high unread rate (top 10%)",
                   "Very high promotional content (top 10%)"} -> 3
      [] text \in {"High unread rate (top 25%)",
                   "High promotional content (top 25%)",
                   "Very high frequency (top 10%)"} -> 2
      [] OTHER -> 1

RECURSIVE SumTenths(_)
SumTenths(reasons) ==
    IF reasons = << >> THEN 0
    ELSE ReasonTenths(Head(reasons).text) + SumTenths(Tail(reasons))

\* C6: a check whose base threshold key is absent from the ThresholdSet adds
\* nothing for any sender: no reason of that check, no part of the score,
\* and the confidence is one that a check that did contribute asserted.
C6_AbsentKeyContributesNothing ==
    \A r \in Runs : \A rec \in Range(recommendations[r]) :
        /\ \A key \in BaseKeys \ DOMAIN thresholds[r] :
              Texts(rec) \cap CheckTexts(key) = {}
        /\ rec.recommendation_score.t = SumTenths(rec.reasons)
        /\ rec.confidence \in Range(AssertedLevels(rec))

C6_Witness ==
    /\ pc[1] = "returned"
    /\ "high_promo" \notin DOMAIN thresholds[1]
    /\ "low_engagement" \in DOMAIN thresholds[1]
    /\ Len(returned[1]) >= 2

\* C7: on an empty dataset every stage ends empty: the sender table, the
\* ThresholdSet and the recommendation list; and a run whose ThresholdSet is
\* empty returns no recommendations and has scored no sender.
C7_EmptyEndsEmpty ==
    \A r \in Runs :
        /\ df = << >> =>
              /\ sender_stats[r] = << >>
              /\ thresholds[r] = NoThresholds
              /\ pc[r] # "scoring"
              /\ returned[r] = << >>
        /\ (pc[r] = "returned" /\ DOMAIN thresholds[r] = {}) =>
              /\ returned[r] = << >>
              /\ recommendations[r] = << >>
              /\ idx[r] = 0

C7_Witness ==
    /\ df = << >>
    /\ pc[1] = "returned"
    /\ pc[2] = "thresholds_shown"

\* the percentile thresholds of a metric over every row of a table
FullPopulationTiers(table) ==
    [ low_engagement   |-> quantile(Column(table, "engagement_score"), Rat(1, 4)),
      high_unread_rate |-> RSub(RInt(1), quantile(Column(table, "read_rate"), Rat(1, 4))),
      high_promo       |-> quantile(Column(table, "promo_ratio"), Rat(3, 4)),
      high_frequency   |-> quantile(Column(table, "emails_per_day"), Rat(3, 4)) ]

\* C8: a run scores only after its thresholds were derived, and they were
\* derived from the complete aggregate of its dataset: every sender of the
\* (filtered) dataset, those below min_emails included.
C8_ThresholdsFromCompletePopulation ==
    \A r \in Runs :
        /\ idx[r] > 0 => pc[r] \in {"scoring", "returned"}
        /\ pc[r] = "scoring" \/ (pc[r] = "returned" /\ idx[r] > 0) =>
              /\ sender_stats[r] = analyze_sender_engagement(df, focus_inbox[r])
              /\ \A key \in BaseKeys :
                    /\ key \in DOMAIN thresholds[r]
                    /\ thresholds[r][key] = FullPopulationTiers(sender_stats[r])[key]
              /\ \A rec \in Range(recommendations[r]) :
                    rec.thresholds_used = FullPopulationTiers(sender_stats[r])

C8_Witness ==
    /\ pc[1] = "returned"
    /\ returned[1] # << >>
    /\ \E k \in DOMAIN sender_stats[1] :
          sender_stats[1][k].total_emails < min_emails[1]
    /\ LET scored == SelectSeq(sender_stats[1],
                         LAMBDA row : row.total_emails >= min_emails[1])
       IN  FullPopulationTiers(scored) # FullPopulationTiers(sender_stats[1])

\* C9: runs interleaved on one engine share no derived state: every
\* recommendation of a run is scored against the ThresholdSet of the run's
\* own population, and the thresholds object the engine holds while a run
\* is scoring is that run's own.
C9_NoSharedDerivedState ==
    \A r \in Runs :
        pc[r] = "scoring" =>
          /\ \A rec \in Range(recommendations[r]) :
                LET own    == calculate_data_driven_thresholds(sender_stats[r])
                    sender == sender_stats[r][RowOf(r, rec)]
                IN  rec = Recommendation(sender, ScoreSender(sender, own), own)
          /\ self_thresholds = thresholds[r]

\* the part of C9 that is about the scoring alone
C9_ScoredAgainstOwnThresholds ==
    \A r \in Runs :
        \A rec \in Range(recommendations[r]) :
            LET own    == calculate_data_driven_thresholds(sender_stats[r])
                sender == sender_stats[r][RowOf(r, rec)]
            IN  rec = Recommendation(sender, ScoreSender(sender, own), own)

\* C10: two runs of the pipeline on the same dataset with the same
\* arguments, on one engine, return identical recommendation lists.
C10_SameDatasetSameRecommendations ==
    ( /\ pc[1] = "returned"
      /\ pc[2] = "returned"
      /\ focus_inbox[1] = focus_inbox[2]
      /\ min_emails[1] = min_emails[2] )
    => returned[1] = returned[2]

C10_Witness ==
    /\ pc[1] = "returned"
    /\ pc[2] = "returned"
    /\ focus_inbox[1] = focus_inbox[2]
    /\ min_emails[1] = min_emails[2]
    /\ Len(returned[1]) >= 2
    /\ returned[2] = returned[1]
    /\ self_thresholds = thresholds[2]

\* the defined values, over a table, of the metric a threshold key is about
MetricValues(table, key) ==
    LET col(name) == {table[k][name] : k \in DOMAIN table}
        all == CASE key \in {"low_engagement", "very_low_engagement"} ->
                      col("engagement_score")
                 [] key \in {"high_unread_rate", "very_high_unread_rate"} ->
                      {RSub(RInt(1), x) : x \in col("read_rate")}
                 [] key \in {"high_promo", "very_high_promo",
                             "newsletter_promo_threshold"} ->
                      col("promo_ratio")
                 [] OTHER -> col("emails_per_day")
    IN  {x \in all : ~IsNaN(x)}

TierPairs ==
    { << "low_engagement", "very_low_engagement" >>,
      << "high_unread_rate", "very_high_unread_rate" >>,
      << "high_promo", "very_high_promo" >>,
      << "high_frequency", "very_high_frequency" >> }

\* whether a metric value meets the condition of a tier key
Meets(key, value, th) ==
    IF key \in {"low_engagement", "very_low_engagement"}
    THEN RLeq(value, th[key]) ELSE RGeq(value, th[key])

\* the value of a sender a tier key is compared with
Compared(sender, key) ==
    CASE key \in {"low_engagement", "very_low_engagement"} ->
             sender.engagement_score
      [] key \in {"high_unread_rate", "very_high_unread_rate"} ->
             RSub(RInt(1), sender.read_rate)
      [] key \in {"high_promo", "very_high_promo"} -> sender.promo_ratio
      [] OTHER -> sender.emails_per_day

\* C12: the tiers of a ThresholdSet are ordered (very_low_engagement <=
\* low_engagement, high_unread_rate <= very_high_unread_rate, high_promo <=
\* very_high_promo, high_frequency <= very_high_frequency), so a sender that
\* meets a "very" condition meets the base condition too.
C12_TiersOrdered ==
    \A r \in Runs :
        \A pair \in TierPairs :
            LET base == pair[1]
                very == pair[2]
                th   == thresholds[r]
            IN  (base \in DOMAIN th \/ very \in DOMAIN th) =>
                  /\ base \in DOMAIN th /\ very \in DOMAIN th
                  /\ IF base = "low_engagement"
                     THEN RLeq(th[very], th[base]) ELSE RLeq(th[base], th[very])
                  /\ \A k \in DOMAIN Table(r) :
                        Meets(very, Compared(Table(r)[k], very), th)
                           => Meets(base, Compared(Table(r)[k], base), th)

C12_Witness ==
    /\ pc[1] = "scoring"
    /\ \A pair \in TierPairs :
          /\ pair[1] \in DOMAIN thresholds[1]
          /\ thresholds[1][pair[1]] # thresholds[1][pair[2]]
    /\ \E k \in DOMAIN Table(1) :
          /\ Meets("low_engagement", Table(1)[k].engagement_score, thresholds[1])
          /\ ~Meets("very_low_engagement", Table(1)[k].engagement_score,
                    thresholds[1])

\* the messages of a sender, among those run r aggregated, that carry an
\* unsubscribe header
WithUnsubscribeHeader(r, name) ==
    {k \in DOMAIN df :
        /\ df[k].from = name
        /\ focus_inbox[r] = NoFocus \/ df[k].source_inbox = focus_inbox[r]
        /\ df[k].list_unsubscribe # ""}

\* the outcome of the four threshold checks for a sender
FourChecks(sender, th) ==
    CheckFrequency(
        CheckPromo(
            CheckUnread(CheckEngagement(Fresh, sender, th), sender, th),
            sender, th),
        sender, th)

BonusReason == [text |-> "Has unsubscribe link", value |-> 0]

\* C13: a scored sender gets the unsubscribe bonus (0.1 and the reason "Has
\* unsubscribe link") exactly when one of its messages carries an unsubscribe
\* header, whatever the four checks gave, and its confidence stays what the
\* four checks left.
C13_BonusIffUnsubscribeHeader ==
    \A r \in Runs : \A k \in Passed(r) :
        LET sender == sender_stats[r][k]
            four   == FourChecks(sender, thresholds[r])
            scored == ScoreSender(sender, thresholds[r])
            has    == WithUnsubscribeHeader(r, sender.sender) # {}
        IN  sender.total_emails >= min_emails[r] =>
              /\ has => /\ scored.score = FAdd(four.score, Lit01)
                        /\ scored.reasons = Append(four.reasons, BonusReason)
              /\ ~has => /\ scored.score = four.score
                         /\ scored.reasons = four.reasons
              /\ scored.confidence = four.confidence
              /\ \A rec \in Range(recommendations[r]) :
                    rec.sender = sender.sender =>
                      /\ rec.recommendation_score = scored.score
                      /\ rec.confidence = four.confidence
                      /\ (BonusReason \in Range(rec.reasons)) <=> has

C13_Witness ==
    /\ pc[1] = "returned"
    /\ \E k \in DOMAIN sender_stats[1] :
          /\ sender_stats[1][k].total_emails >= min_emails[1]
          /\ ScoreSender(sender_stats[1][k], thresholds[1]).reasons
                = << BonusReason >>
    /\ \E rec \in Range(returned[1]) : BonusReason \in Range(rec.reasons)
    /\ \E rec \in Range(returned[1]) : BonusReason \notin Range(rec.reasons)

EngagementTexts == {"Very low engagement (bottom 10%)", "Low engagement (bottom 25%)"}

\* the recommendations of run r made from row k of its table
RecsOf(r, k) ==
    {rec \in Range(recommendations[r]) : rec.sender = sender_stats[r][k].sender}

ScenarioA == {Rat(1, 10), Rat(2, 10), Rat(5, 10), Rat(8, 10), Rat(9, 10)}

IsScenarioA(table) ==
    /\ Len(table) = 5
    /\ {table[k].engagement_score : k \in DOMAIN table} = ScenarioA
    /\ \A k \in DOMAIN table :
          /\ table[k].total_emails = 10
          /\ table[k].unsubscribe_links_count = 0
          /\ table[k].emails_per_day = RInt(1)

\* C15: for 5 senders with engagement scores 0.1, 0.2, 0.5, 0.8, 0.9, 10
\* mails each and no other signal, low_engagement is the 25th percentile
\* under linear interpolation, 0.2, and exactly the senders with 0.1 and 0.2
\* get an engagement contribution.
C15_ScenarioA ==
    \A r \in Runs :
        (IsScenarioA(sender_stats[r]) /\ pc[r] \in {"scoring", "returned"}) =>
          /\ thresholds[r]["low_engagement"] = Rat(2, 10)
          /\ \A k \in Passed(r) :
                LET sender == sender_stats[r][k]
                    low    == RLeq(sender.engagement_score, Rat(2, 10))
                IN  /\ RecsOf(r, k) # {}
                    /\ \A rec \in RecsOf(r, k) :
                          /\ (Texts(rec) \cap EngagementTexts # {}) <=> low
                          /\ low => rec.reasons[1].text \in EngagementTexts
                          /\ rec.recommendation_score =
                               SumF64((IF sender.engagement_score = Rat(1, 10)
                                         THEN << Lit04 >>
                                       ELSE IF sender.engagement_score = Rat(2, 10)
                                         THEN << Lit03 >>
                                       ELSE << >>)
                                      \o << Lit03, Lit03, Lit02 >>)

C15_Witness ==
    /\ IsScenarioA(sender_stats[1])
    /\ pc[1] = "returned"
    /\ Len(returned[1]) = 5
    /\ Cardinality({rec \in Range(returned[1]) :
                      Texts(rec) \cap EngagementTexts # {}}) = 2

\* the records of the dataset that run r aggregates
Aggregated(r) ==
    {k \in DOMAIN df :
        focus_inbox[r] = NoFocus \/ df[k].source_inbox = focus_inbox[r]}

\* the records among a set that are from a sender and carry a flag
Flagged(records, name, flag) ==
    {k \in records : df[k].from = name /\ df[k][flag]}

RECURSIVE SumOfTotals(_)
SumOfTotals(table) ==
    IF table = << >> THEN 0
    ELSE Head(table).total_emails + SumOfTotals(Tail(table))

CountColumns ==
    [ unread_count            |-> "is_unread",
      starred_count           |-> "is_starred",
      important_count         |-> "is_important",
      promotions_count        |-> "category_promotions",
      updates_count           |-> "category_updates",
      social_count            |-> "category_social",
      forums_count            |-> "category_forums",
      personal_count          |-> "category_personal",
      unsubscribe_links_count |-> "has_unsubscribe" ]

\* C16: the sender table has exactly one profile per distinct raw From
\* string of the aggregated records, none twice and none rewritten; a
\* profile's total_emails is the number of its sender's records, its counts
\* are the numbers of those records carrying the flag, and the totals add up
\* to the number of records aggregated.
C16_OneProfilePerRawSender ==
    \A r \in Runs :
        pc[r] # "idle" =>
          LET table == sender_stats[r]
          IN  /\ {table[k].sender : k \in DOMAIN table}
                   = {df[k].from : k \in Aggregated(r)}
              /\ \A i, j \in DOMAIN table :
                    table[i].sender = table[j].sender => i = j
              /\ \A i \in DOMAIN table :
                    /\ table[i].total_emails =
                         Cardinality({k \in Aggregated(r) :
                                        df[k].from = table[i].sender})
                    /\ \A column \in DOMAIN CountColumns :
                          table[i][column] =
                            Cardinality(Flagged(Aggregated(r), table[i].sender,
                                                CountColumns[column]))
              /\ SumOfTotals(table) = Cardinality(Aggregated(r))

C16_Witness ==
    /\ pc[1] = "analyzed"
    /\ focus_inbox[1] = NoFocus
    /\ \E i, j \in DOMAIN sender_stats[1] :
          /\ sender_stats[1][i].sender = "Carol <carol@mail.com>"
          /\ sender_stats[1][j].sender = "carol@mail.com"
          /\ sender_stats[1][i].total_emails = 3
          /\ sender_stats[1][i].unread_count = 3
          /\ sender_stats[1][i].starred_count = 1
          /\ sender_stats[1][j].total_emails = 2
    /\ SumOfTotals(sender_stats[1]) = Len(df)

\* C17: with focus_inbox given, only the records whose source_inbox equals
\* it are aggregated: a profile exists only for a sender with such a record
\* and counts only such records; if no record matches, the table is empty.
C17_FocusInboxFilters ==
    \A r \in Runs :
        (pc[r] # "idle" /\ focus_inbox[r] # NoFocus) =>
          LET table   == sender_stats[r]
              matches == {k \in DOMAIN df : df[k].source_inbox = focus_inbox[r]}
          IN  /\ matches = {} => table = << >>
              /\ \A i \in DOMAIN table :
                    LET own == {k \in matches : df[k].from = table[i].sender}
                    IN  /\ own # {}
                        /\ table[i].total_emails = Cardinality(own)
                        /\ table[i].unread_count =
                              Cardinality({k \in own : df[k].is_unread})
                        /\ \E k \in own :
                              table[i].first_email_date = df[k].arrival_datetime
                        /\ \E k \in own :
                              table[i].last_email_date = df[k].arrival_datetime
              /\ \A k \in matches :
                    \E i \in DOMAIN table : table[i].sender = df[k].from

C17_Witness ==
    /\ pc[1] = "analyzed"
    /\ focus_inbox[1] = "promotions"
    /\ \E i \in DOMAIN sender_stats[1] :
          /\ sender_stats[1][i].total_emails = 1
          /\ Cardinality({k \in DOMAIN df :
                            df[k].from = sender_stats[1][i].sender}) = 3
    /\ \E k \in DOMAIN df :
          \A i \in DOMAIN sender_stats[1] :
              sender_stats[1][i].sender # df[k].from

\* C18: a record whose sender is missing or empty is left out before the
\* aggregation: no profile, and so no recommendation, is ever built for an
\* empty sender key, and the other records are aggregated as usual.
C18_NoProfileForEmptySender ==
    \A r \in Runs :
        /\ \A k \in DOMAIN sender_stats[r] : sender_stats[r][k].sender # ""
        /\ \A rec \in Range(recommendations[r]) : rec.sender # ""

\* C19: every profile, and every recommendation's copy of it, has
\* days_active = max(1, whole days between first and last arrival), so
\* days_active >= 1, and emails_per_day = total_emails / days_active.
C19_DaysActiveAtLeastOne ==
    \A r \in Runs :
        /\ \A k \in DOMAIN sender_stats[r] :
              LET row == sender_stats[r][k]
              IN  /\ row.days_active >= 1
                  /\ ~IsNaN(row.emails_per_day) =>
                        row.emails_per_day = Rat(row.total_emails, row.days_active)
        /\ \A rec \in Range(recommendations[r]) :
              /\ rec.days_active >= 1
              /\ ~IsNaN(rec.emails_per_day) =>
                    rec.emails_per_day = Rat(rec.total_emails, rec.days_active)

\* the part of C19 the code keeps: emails_per_day divides by the clipped span
C19_FrequencyUsesClippedDays ==
    \A r \in Runs : \A k \in DOMAIN sender_stats[r] :
        LET row  == sender_stats[r][k]
            span == (row.last_email_date - row.first_email_date) \div 24
        IN  /\ row.days_active = span
            /\ ~IsNaN(row.emails_per_day) =>
                  row.emails_per_day =
                    Rat(row.total_emails, IF span < 1 THEN 1 ELSE span)

\* the median of a set of senders' values: the middle one in ascending
\* order, or the mean of the two middle ones
MiddleValue(values) ==
    LET v == RSort(values)
        n == Len(v)
    IN  IF n % 2 = 1 THEN v[(n + 1) \div 2]
        ELSE RMul(RAdd(v[n \div 2], v[n \div 2 + 1]), Rat(1, 2))

ExpectedLinks(text) ==
    CASE text = UnsubHeader    -> {"https://x.com/unsub", "mailto:a@b.com"}
      [] text = MailtoHeader   -> {"mailto:leave@lists.org"}
      [] text = WordsHeader    -> {}
      [] text = TwoUrlHeader   -> {"https://x.com/unsub"}
      [] text = BareHeader     -> {"https://x.com/unsub", "mailto:a@b.com"}
      [] text = EmptyUrlHeader -> {"http://y.org/u", "mailto:leave@lists.org"}
      [] OTHER -> {}

\* the non-empty header texts of a sender's messages
HeadersOf(sender) ==
    {df[i].list_unsubscribe : i \in {j \in DOMAIN df :
        df[j].from = sender /\ df[j].list_unsubscribe # ""}}

\* C21: extract_unsubscribe_links maps each sender to a collection without
\* duplicates that holds exactly the first URL and the first mailto action of
\* every comma-separated segment of the sender's headers; the header
\* "<https://x.com/unsub>, <mailto:a@b.com>" yields exactly
\* https://x.com/unsub and mailto:a@b.com.
C21_LinksPerSender ==
    links_pc = "returned" =>
        \A sender \in DOMAIN unsubscribe_links :
            LET links == unsubscribe_links[sender]
            IN  /\ Cardinality(Range(links)) = Len(links)
                /\ Range(links) =
                      UNION {ExpectedLinks(text) : text \in HeadersOf(sender)}
                /\ HeadersOf(sender) = {UnsubHeader} =>
                      Range(links) = {"https://x.com/unsub", "mailto:a@b.com"}

\* a sender whose messages repeat links came out with each link once, next to
\* a sender whose only header is the one of the example
C21_Witness ==
    /\ links_pc = "returned"
    /\ \E sender \in DOMAIN unsubscribe_links :
          /\ HeadersOf(sender) = {TwoUrlHeader, BareHeader}
          /\ Len(unsubscribe_data[sender]) = 3
          /\ Len(unsubscribe_links[sender]) = 2
    /\ \E sender \in DOMAIN unsubscribe_links :
          /\ HeadersOf(sender) = {UnsubHeader}
          /\ Len(unsubscribe_data[sender]) = 4

\* C30: the senders extract_unsubscribe_links returns are exactly those with
\* at least one message whose unsubscribe header is not empty; one whose
\* headers hold no URL and no mailto action is mapped to an empty list.
C30_KeysAreSendersWithHeader ==
    links_pc = "returned" =>
        /\ DOMAIN unsubscribe_links =
              {df[i].from : i \in {j \in DOMAIN df : df[j].list_unsubscribe # ""}}
        /\ \A sender \in DOMAIN unsubscribe_links :
              HeadersOf(sender) = {WordsHeader} =>
                  unsubscribe_links[sender] = << >>

\* a sender with a header of words only is returned with no links, a sender
\* without a header is not returned, a sender with links is
C30_Witness ==
    /\ links_pc = "returned"
    /\ \E sender \in DOMAIN unsubscribe_links :
          HeadersOf(sender) = {WordsHeader} /\ unsubscribe_links[sender] = << >>
    /\ \E i \in DOMAIN df : df[i].from \notin DOMAIN unsubscribe_links
    /\ \E sender \in DOMAIN unsubscribe_links : unsubscribe_links[sender] # << >>

(***************************************************************************)
(* The report and the table.                                               *)
(***************************************************************************)
\* the bands whose list in the report holds the recommendation
BandsOf(rep, rec) ==
    {band \in {"high", "medium", "low"} :
        rec \in Range(CASE band = "high"   -> rep.high
                        [] band = "medium" -> rep.medium
                        [] band = "low"    -> rep.low)}

\* the band the cut-offs 0.8 and 0.6 give a score
BandOfScore(score) ==
    IF ~FLess(score, F64(8, 32)) THEN "high"
    ELSE IF ~FLess(score, F64(6, -16)) THEN "medium"
    ELSE "low"

PriorityOfBand(band) ==
    CASE band = "high" -> "HIGH" [] band = "medium" -> "MED" [] band = "low" -> "LOW"

\* C22: the report puts every recommendation in exactly one band, high for a
\* score of at least 0.8, medium for a score of at least 0.6 and below 0.8,
\* low below 0.6; the band counts add up to the number of recommendations;
\* the table of the analyze command shows the same band for the same score.
C22_OneBandPerRecommendation ==
    (pc[1] = "reported" /\ returned[1] # << >>) =>
        LET rep == report[1]
        IN  /\ rep.high_count = Len(rep.high)
            /\ rep.medium_count = Len(rep.medium)
            /\ rep.low_count = Len(rep.low)
            /\ rep.high_count + rep.medium_count + rep.low_count
                  = Len(returned[1])
            /\ rep.total = Len(returned[1])
            /\ \A k \in DOMAIN returned[1] :
                  LET rec == returned[1][k]
                  IN  /\ BandsOf(rep, rec) = {BandOfScore(rec.recommendation_score)}
                      /\ k \in DOMAIN priorities[1]
                      /\ priorities[1][k] =
                            PriorityOfBand(BandOfScore(rec.recommendation_score))

\* a report with a recommendation of score 0.7999999999999999 (0.4 + 0.3 +
\* 0.1), in the medium band and shown as MED, and one in the high band
C22_Witness ==
    /\ pc[1] = "reported"
    /\ returned[1] # << >>
    /\ \E k \in DOMAIN returned[1] :
          /\ returned[1][k].recommendation_score.t = 8
          /\ FLess(returned[1][k].recommendation_score, Lit08)
          /\ returned[1][k] \in Range(report[1].medium)
          /\ priorities[1][k] = "MED"
    /\ report[1].high_count > 0

(***************************************************************************)
(* What a Recommendation records of the thresholds.                        *)
(***************************************************************************)
\* the threshold key a reason's check compared the metric with
CrossedKey(text) ==
    CASE text = "Very low engagement (bottom 10%)" -> "very_low_engagement"
      [] text = "Low engagement (bottom 25%)" -> "low_engagement"
      [] text = "Very high unread rate (top 10%)" -> "very_high_unread_rate"
      [] text = "High unread rate (top 25%)" -> "high_unread_rate"
      [] text = "Very high promotional content (top 10%)" -> "very_high_promo"
      [] text = "High promotional content (top 25%)" -> "high_promo"
      [] text = "Very high frequency (top 10%)" -> "very_high_frequency"
      [] text = "High frequency (top 25%)" -> "high_frequency"

\* C23: for each check that contributed to a Recommendation's score, the
\* threshold the metric was compared with and crossed, the very_low or
\* very_high one where the "very" branch fired, is in its thresholds_used.
C23_CarriesCrossedThresholds ==
    \A r \in Runs : \A rec \in Range(recommendations[r]) :
        \A text \in Texts(rec) \cap (VeryTexts \cup BaseTexts) :
            /\ CrossedKey(text) \in DOMAIN rec.thresholds_used
            /\ rec.thresholds_used[CrossedKey(text)] = thresholds[r][CrossedKey(text)]

\* what does hold: the four base thresholds of the run, crossed or not
C23_CarriesBaseThresholds ==
    \A r \in Runs : \A rec \in Range(recommendations[r]) :
        /\ DOMAIN rec.thresholds_used = BaseKeys
        /\ \A key \in BaseKeys \cap DOMAIN thresholds[r] :
              rec.thresholds_used[key] = thresholds[r][key]

(***************************************************************************)
(* Metrics without a defined value.                                        *)
(***************************************************************************)
\* the threshold keys derived from a metric, by tier and by the median
TierKeysOf(metric) ==
    CASE metric = "engagement_score" -> {"low_engagement", "very_low_engagement"}
      [] metric = "read_rate" -> {"high_unread_rate", "very_high_unread_rate"}
      [] metric = "promo_ratio" -> {"high_promo", "very_high_promo"}
      [] metric = "emails_per_day" -> {"high_frequency", "very_high_frequency"}

MedianKeysOf(metric) ==
    CASE metric = "promo_ratio" -> {"newsletter_promo_threshold"}
      [] metric = "emails_per_day" -> {"newsletter_frequency_threshold"}
      [] OTHER -> {}

\* no sender of the table has a defined value of the metric
Undefined(table, metric) == \A k \in DOMAIN table : IsNaN(table[k][metric])

\* the runs whose thresholds were derived from their table
Derived(r) == pc[r] \in {"thresholds_shown", "scoring"} \/ idx[r] > 0

\* C24: every key derived from a metric no sender has a defined value of is
\* left out of the ThresholdSet, the newsletter keys included, and every key
\* that is in a ThresholdSet has a defined numeric value.
C24_UndefinedMetricKeysOmitted ==
    \A r \in Runs :
        Derived(r) =>
            /\ \A metric \in Metrics :
                  Undefined(Table(r), metric) =>
                      (TierKeysOf(metric) \cup MedianKeysOf(metric))
                          \cap DOMAIN thresholds[r] = {}
            /\ \A key \in DOMAIN thresholds[r] : ~IsNaN(thresholds[r][key])

\* what does hold: the tier keys of such a metric are left out, and every
\* tier key that is present is defined
C24_TierKeysOmitted ==
    \A r \in Runs :
        Derived(r) =>
            \A metric \in Metrics :
                /\ Undefined(Table(r), metric) =>
                      TierKeysOf(metric) \cap DOMAIN thresholds[r] = {}
                /\ \A key \in TierKeysOf(metric) \cap DOMAIN thresholds[r] :
                      ~IsNaN(thresholds[r][key])

(***************************************************************************)
(* The reasons of a Recommendation.                                        *)
(***************************************************************************)
\* the checks in their order, as pairs of base and "very" threshold key with
\* the two reason texts
OrderedChecks ==
    << << "low_engagement", "very_low_engagement",
          "Low engagement (bottom 25%)", "Very low engagement (bottom 10%)" >>,
       << "high_unread_rate", "very_high_unread_rate",
          "High unread rate (top 25%)", "Very high unread rate (top 10%)" >>,
       << "high_promo", "very_high_promo",
          "High promotional content (top 25%)",
          "Very high promotional content (top 10%)" >>,
       << "high_frequency", "very_high_frequency",
          "High frequency (top 25%)", "Very high frequency (top 10%)" >> >>

\* the reason texts a sender is due, check by check
RECURSIVE DueTexts(_, _, _)
DueTexts(sender, th, k) ==
    IF k > Len(OrderedChecks)
    THEN IF sender.unsubscribe_links_count > 0
         THEN << "Has unsubscribe link" >> ELSE << >>
    ELSE LET check == OrderedChecks[k]
             base  == check[1]
             very  == check[2]
         IN  (IF Has(th, base) /\ Meets(base, Compared(sender, base), th)
              THEN IF Has(th, very) /\ Meets(very, Compared(sender, very), th)
                   THEN << check[4] >> ELSE << check[3] >>
              ELSE << >>)
             \o DueTexts(sender, th, k + 1)

\* the weight the tier a reason names stands for
NamedWeight(text) ==
    CASE ReasonTenths(text) = 4 -> Lit04
      [] ReasonTenths(text) = 3 -> Lit03
      [] ReasonTenths(text) = 2 -> Lit02
      [] OTHER -> Lit01

\* C25: the reasons of a Recommendation are one reason per check that
\* contributed and none for the others, in the order engagement, unread rate,
\* promotional content, frequency, unsubscribe link, and each names the tier
\* (25% or 10%) whose weight was added.
C25_ReasonsInCheckOrder ==
    \A r \in Runs : \A rec \in Range(recommendations[r]) :
        LET sender == sender_stats[r][RowOf(r, rec)]
            texts  == [k \in DOMAIN rec.reasons |-> rec.reasons[k].text]
        IN  /\ texts = DueTexts(sender, thresholds[r], 1)
            /\ rec.recommendation_score
                  = SumF64([k \in DOMAIN texts |-> NamedWeight(texts[k])])

\* a recommendation whose checks of the unread rate and of the promotional
\* content both contributed, in different tiers, while another check did not
C25_Witness ==
    \E rec \in Range(returned[1]) :
        /\ Texts(rec) \cap CheckTexts("high_unread_rate") # {}
        /\ Texts(rec) \cap CheckTexts("high_promo") # {}
        /\ Texts(rec) \cap VeryTexts # {}
        /\ Texts(rec) \cap BaseTexts # {}
        /\ \E key \in BaseKeys : Texts(rec) \cap CheckTexts(key) = {}

(***************************************************************************)
(* Confidence of the emitted.                                              *)
(***************************************************************************)
\* C26: no emitted Recommendation has the confidence "low": the bonus alone
\* is below the inclusion threshold, so a threshold check contributed and set
\* the confidence to "medium" or "high".
C26_NeverLowConfidence ==
    \A r \in Runs : \A rec \in Range(recommendations[r]) :
        /\ rec.confidence \in {"medium", "high"}
        /\ Texts(rec) \cap (VeryTexts \cup BaseTexts) # {}

\* a sender emitted with the least it takes, one check worth 0.3, next to a
\* scored sender that no check spoke about and that was not emitted
C26_Witness ==
    /\ \E rec \in Range(returned[1]) :
          /\ rec.recommendation_score = Lit03
          /\ Len(rec.reasons) = 1
          /\ rec.confidence # "low"
    /\ \E k \in Passed(1) :
          /\ sender_stats[1][k].total_emails >= min_emails[1]
          /\ ScoreSender(sender_stats[1][k], thresholds[1]).confidence = "low"

(***************************************************************************)
(* The least engaged sender.                                               *)
(***************************************************************************)
\* the run's call has returned its list
Returned(r) == pc[r] \in {"returned", "shown", "reported"}

\* the rows of a table with the lowest engagement_score
LeastEngaged(table) ==
    {k \in DOMAIN table :
        \A j \in DOMAIN table :
            RLeq(table[k].engagement_score, table[j].engagement_score)}

\* C27: in every non-empty population the sender with the lowest
\* engagement_score is at or below very_low_engagement and is scored at
\* least 0.4, so if it has min_emails messages the list returned is not
\* empty, however high the engagement of all senders is.
C27_LeastEngagedIsRecommended ==
    \A r \in Runs :
        (Derived(r) /\ Table(r) # << >> /\ "engagement_score" \notin nan_columns)
        => \A k \in LeastEngaged(Table(r)) :
              LET sender == Table(r)[k]
              IN  /\ "very_low_engagement" \in DOMAIN thresholds[r]
                  /\ RLeq(sender.engagement_score,
                          thresholds[r]["very_low_engagement"])
                  /\ (k \in Passed(r) /\ sender.total_emails >= min_emails[r]) =>
                        \E rec \in Range(recommendations[r]) :
                            /\ rec.sender = sender.sender
                            /\ "Very low engagement (bottom 10%)" \in Texts(rec)
                            /\ FGeq(rec.recommendation_score, Lit04)
                  /\ (Returned(r) /\ sender.total_emails >= min_emails[r]) =>
                        returned[r] # << >>

\* a population of several senders of differing engagement, of which one is
\* not returned and the least engaged is, as very little engaged
C27_Witness ==
    /\ pc[1] = "returned"
    /\ Len(sender_stats[1]) >= 3
    /\ Len(returned[1]) < Len(sender_stats[1])
    /\ \E k \in LeastEngaged(sender_stats[1]) :
          /\ \E rec \in Range(returned[1]) :
                /\ rec.sender = sender_stats[1][k].sender
                /\ "Very low engagement (bottom 10%)" \in Texts(rec)
          /\ \E j \in DOMAIN sender_stats[1] :
                sender_stats[1][j].engagement_score
                    # sender_stats[1][k].engagement_score

(***************************************************************************)
(* Populations that share a value.                                         *)
(***************************************************************************)
\* the checks of the metrics of which a high value counts against a sender
HighIsBad == {2, 3, 4}

\* every row of the table has the value v for the metric of the check
Shared(table, check, v) ==
    \A k \in DOMAIN table :
        LET value == Compared(table[k], check[1])
        IN  ~IsNaN(value) /\ RLeq(value, v) /\ RLeq(v, value)

\* the last reason of a recommendation that stems from a threshold check
LastThresholdReason(rec) ==
    LET at == {k \in DOMAIN rec.reasons :
                  rec.reasons[k].text \in VeryTexts \cup BaseTexts}
    IN  rec.reasons[CHOOSE k \in at : \A j \in at : k >= j].text

C29_OneThresholdsUsedPerCall ==
    \A r \in Runs :
        /\ \A a \in Range(returned[r]) : \A b \in Range(returned[r]) :
              a.thresholds_used = b.thresholds_used
        /\ (pc[r] = "reported" /\ returned[r] # << >>) =>
              /\ DOMAIN report[r].thresholds = BaseKeys \cap DOMAIN thresholds[r]
              /\ \A rec \in Range(returned[r]) :
                    \A key \in DOMAIN report[r].thresholds :
                        /\ rec.thresholds_used[key] = thresholds[r][key]
                        /\ report[r].thresholds[key]
                              = Format3(rec.thresholds_used[key])

\* a report on several recommendations with different reasons, made in a run
\* without a frequency threshold: the section shows the three others
C29_Witness ==
    /\ pc[1] = "reported"
    /\ Len(returned[1]) >= 3
    /\ \E a \in Range(returned[1]) : \E b \in Range(returned[1]) :
          Texts(a) # Texts(b)
    /\ DOMAIN report[1].thresholds =
          {"low_engagement", "high_unread_rate", "high_promo"}
====
